---- MODULE Spec2Model ----
(***************************************************************************)
(* Model of lib/sqlalchemy_sandbox.py: the Student table with its three    *)
(* constraints, the session (unit of work) the script drives, and every    *)
(* statement of the script's __main__ block.                               *)
(*                                                                         *)
(* Two specifications are given.  SpecMain runs the statements in the      *)
(* order of the script (pc is the line about to run), with the two Student *)
(* objects of lines 60-80 drawn from RosterMain.  Spec runs the           *)
(* statements that insert, read and update rows in any order, any number   *)
(* of times and with any objects of Roster, from the state reached after   *)
(* line 80.  An exception is never caught by the script, so a raised       *)
(* error ends the run in both.                                             *)
(*                                                                         *)
(* The store is SQLite behind a SQLAlchemy Session with its defaults       *)
(* (autoflush, expire_on_commit): bulk_save_objects emits its INSERTs when *)
(* called, a query first flushes the pending changes of tracked objects,   *)
(* commit flushes and then commits, and a failed statement rolls the       *)
(* transaction back.                                                       *)
(***************************************************************************)
EXTENDS Integers, Sequences, FiniteSets, TLC

VARIABLES
    schema,           \* the students table exists (line 48)
    session_open,     \* a Session has been created and not closed (line 56)
    db,               \* rows of students as of the last successful COMMIT
    txn,              \* rows as seen inside the session's transaction
    dirty,            \* tracked objects with attribute changes not yet flushed
    deleted,          \* ids of tracked objects marked by session.delete
    albert_einstein,  \* the Python variable of lines 60, 155, 162
    alan_turing,      \* the Python variable of line 71
    query,            \* the Python variable of lines 132, 150
    op,               \* the statement that ran last
    objs,             \* the list the last statement gave bulk_save_objects
    result,           \* the value the last statement computed and printed
    err,              \* the exception that ended the run, or "none"
    raised_by,        \* the call that raised it
    pc                \* SpecMain: the line about to run; Spec: "api"

vars == <<schema, session_open, db, txn, dirty, deleted, albert_einstein,
          alan_turing, query, op, objs, result, err, raised_by, pc>>

(***************************************************************************)
(* Bounds of the model.                                                    *)
(***************************************************************************)
MaxRows == 2
MaxObjs == 2
MaxIncs == 2

(***************************************************************************)
(* Strings the store inspects (LIKE, ORDER BY) are sequences of            *)
(* characters; emails are only compared for equality.                      *)
(***************************************************************************)
AlbertEinsteinName ==
    <<"A","l","b","e","r","t"," ","E","i","n","s","t","e","i","n">>
AlanTuringName == <<"A","l","a","n"," ","T","u","r","i","n","g">>
AlanKayName == <<"a","l","a","n"," ","k","a","y">>
AlanPattern == <<"%","A","l","a","n","%">>

\* Python's None, and a present value, as sequences of length 0 and 1.
None == <<>>
Some(x) == <<x>>

\* ASCII code of the characters used.
Ord(c) ==
    CASE c = " " -> 32 [] c = "%" -> 37 [] c = "_" -> 95
      [] c = "A" -> 65 [] c = "E" -> 69 [] c = "T" -> 84
      [] c = "a" -> 97 [] c = "b" -> 98 [] c = "e" -> 101 [] c = "g" -> 103
      [] c = "i" -> 105 [] c = "k" -> 107 [] c = "l" -> 108 [] c = "n" -> 110
      [] c = "r" -> 114 [] c = "s" -> 115 [] c = "t" -> 116 [] c = "u" -> 117
      [] c = "y" -> 121

\* SQLite folds ASCII upper case to lower case when it evaluates LIKE.
Fold(c) == IF Ord(c) >= 65 /\ Ord(c) <= 90 THEN Ord(c) + 32 ELSE Ord(c)

\* name LIKE pattern: % matches any run of characters, _ any one character.
RECURSIVE Like(_, _)
Like(p, s) ==
    IF p = <<>> THEN s = <<>>
    ELSE IF Head(p) = "%"
         THEN Like(Tail(p), s) \/ (s # <<>> /\ Like(p, Tail(s)))
         ELSE /\ s # <<>>
              /\ (Head(p) = "_" \/ Fold(Head(p)) = Fold(Head(s)))
              /\ Like(Tail(p), Tail(s))

\* a <= b in SQLite's default BINARY collation (ORDER BY name).
RECURSIVE NameLeq(_, _)
NameLeq(a, b) ==
    IF a = <<>> THEN TRUE
    ELSE IF b = <<>> THEN FALSE
    ELSE IF Ord(Head(a)) # Ord(Head(b)) THEN Ord(Head(a)) < Ord(Head(b))
    ELSE NameLeq(Tail(a), Tail(b))

(***************************************************************************)
(* Student objects the statements are run with.  id = 0 stands for an      *)
(* object built without an id, as on lines 60-80.                          *)
(***************************************************************************)
Student(i, n, e, g, b) ==
    [id |-> i, name |-> n, email |-> e, grade |-> g, birthday |-> b]

SampleEinstein ==
    Student(0, AlbertEinsteinName, "albert.einstein@zurich.edu", 6, 1879)
SampleTuring ==
    Student(0, AlanTuringName, "alan.turing@sherborne.edu", 11, 1912)

Roster ==
    { SampleEinstein,
      SampleTuring,
      Student(0, AlbertEinsteinName, "a.einstein@ias.edu", 12, 1879),
      Student(0, AlanKayName, "a.einstein@ias.edu", 1, 1940),
      Student(0, AlanTuringName, "alan.turing@sherborne.edu", 0, 1912),
      Student(0, AlbertEinsteinName, "albert.einstein@zurich.edu", 13, 1879),
      Student(1, AlanKayName, "alan.kay@utah.edu", 6, 1940) }

\* The script's run is also tried with a second Student of the same name.
RosterMain ==
    Roster \cup
        {Student(2, AlbertEinsteinName, "einstein@princeton.edu", 6, 1879)}

ObjLists == UNION { [1..n -> Roster] : n \in 1..MaxObjs }

(***************************************************************************)
(* The table: __table_args__ of Student.                                   *)
(***************************************************************************)

\* (faulty variant: the upper limit is off by one)
GradeCheckLoose(g) == g >= 1 /\ g <= 13

\* CheckConstraint grade_between_1_and_12
GradeCheck(g) == g >= 1 /\ g <= 12

\* (faulty variant: the constraint is not declared)
UniqueEmailOff(rows, e) == TRUE

\* UniqueConstraint unique_email
UniqueEmail(rows, e) == \A r \in rows : r.email # e

\* PrimaryKeyConstraint id_pk
PrimaryKey(rows, i) == \A r \in rows : r.id # i

\* id is an INTEGER primary key: a row inserted without one gets the largest
\* id of the table plus one.
MaxOf(S) == CHOOSE m \in S : \A x \in S : x <= m
NextRowid(rows) == IF rows = {} THEN 1 ELSE MaxOf({r.id : r \in rows}) + 1

\* A stored row: the object's columns, the id the store gave it, and two
\* history fields: the grade it was inserted with and how many times the
\* update loop's "grade += 1" has been applied to it.
Row(o, i) ==
    [id |-> i, name |-> o.name, email |-> o.email, grade |-> o.grade,
     birthday |-> o.birthday, g0 |-> o.grade, incs |-> 0]

InsertOK(rows, o, i) ==
    /\ PrimaryKey(rows, i)
    /\ UniqueEmail(rows, o.email)
    /\ GradeCheck(o.grade)

\* (faulty variant: the rows are staged without asking the store)
InsertAllUnchecked(rows, os) ==
    [ok |-> TRUE,
     rows |-> rows \cup
        {Row(os[i], IF os[i].id = 0 THEN NextRowid(rows) + i - 1
                    ELSE os[i].id) : i \in 1..Len(os)}]

\* The INSERTs of one bulk_save_objects call, in list order, stopping at the
\* first row the store refuses.
RECURSIVE InsertAll(_, _)
InsertAll(rows, os) ==
    IF os = <<>> THEN [ok |-> TRUE, rows |-> rows]
    ELSE LET o == Head(os)
             i == IF o.id = 0 THEN NextRowid(rows) ELSE o.id
         IN  IF InsertOK(rows, o, i)
             THEN InsertAll(rows \cup {Row(o, i)}, Tail(os))
             ELSE [ok |-> FALSE, rows |-> rows]

(***************************************************************************)
(* The session: flush, rollback, and the results of the queries.           *)
(***************************************************************************)

\* The flush refuses an UPDATE whose row would break the CHECK constraint.
\* (The script changes grade only, and a DELETE breaks no constraint.)
FlushFails(dty, del) ==
    \E d \in dty : d.id \notin del /\ ~GradeCheck(d.grade)

\* (faulty variant: the DELETEs are not emitted)
FlushedKeepDeleted(rows, dty, del) ==
    {r \in rows : r.id \notin {d.id : d \in dty}} \cup dty

\* The table after the flush's UPDATEs and DELETEs.
Flushed(rows, dty, del) ==
    {r \in rows : r.id \notin del /\ r.id \notin {d.id : d \in dty}}
        \cup {d \in dty : d.id \notin del}

\* (faulty variant: the increment is 2)
BumpTwice(r) == [r EXCEPT !.grade = @ + 2, !.incs = @ + 1]

\* student.grade += 1  (line 141)
Bump(r) == [r EXCEPT !.grade = @ + 1, !.incs = @ + 1]

\* The tracked objects the update loop leaves changed.
BumpAll(rows) == {Bump(r) : r \in rows}

\* The orders in which a SELECT may return a set of rows.
Perms(S) ==
    {s \in [1..Cardinality(S) -> S] :
        \A i, j \in 1..Cardinality(S) : i # j => s[i] # s[j]}

\* ... under ORDER BY name, ORDER BY grade DESC (and, in a faulty variant,
\* ORDER BY grade).
OrderedByName(S) ==
    {s \in Perms(S) :
        \A i \in 1..(Len(s) - 1) : NameLeq(s[i].name, s[i + 1].name)}
OrderedByGradeDesc(S) ==
    {s \in Perms(S) : \A i \in 1..(Len(s) - 1) : s[i].grade >= s[i + 1].grade}
OrderedByGradeAsc(S) ==
    {s \in Perms(S) : \A i \in 1..(Len(s) - 1) : s[i].grade <= s[i + 1].grade}

\* The columns a query selects, row by row.
NameOf(s) == IF s = <<>> THEN <<>> ELSE [i \in 1..Len(s) |-> <<s[i].name>>]
NameGradeOf(s) ==
    IF s = <<>> THEN <<>> ELSE [i \in 1..Len(s) |-> <<s[i].name, s[i].grade>>]
NameBirthdayOf(s) ==
    IF s = <<>> THEN <<>>
    ELSE [i \in 1..Len(s) |-> <<s[i].name, s[i].birthday>>]
\* record.name of each record, as the loop of lines 135-136 prints it
PlainName(s) == IF s = <<>> THEN <<>> ELSE [i \in 1..Len(s) |-> s[i].name]

\* first(): the head of the result, or None.
FirstOf(seqs) == {IF s = <<>> THEN None ELSE Some(s[1]) : s \in seqs}

\* A filter: the conjunction of the predicates given, each present or not.
Filter(l, g, n) == [like |-> l, grade |-> g, name |-> n]
Matches(q, r) ==
    /\ q.like = None \/ Like(q.like[1], r.name)
    /\ q.grade = None \/ r.grade = q.grade[1]
    /\ q.name = None \/ r.name = q.name[1]
\* (faulty variant: the filter is dropped)
MatchingAll(q, rows) == rows
Matching(q, rows) == {r \in rows : Matches(q, r)}

\* (faulty variant: only the first row is returned)
AllOutFirst(rows) == FirstOf(Perms(rows))

\* session.query(Student).all()  (line 90)
AllOut(rows) == Perms(rows)
\* session.query(Student.name)  (line 96)
NamesOut(rows) == {NameOf(s) : s \in Perms(rows)}
\* ... .order_by(Student.name)  (line 102)
NamesOrderedOut(rows) == {NameOf(s) : s \in OrderedByName(rows)}
\* session.query(Student.name, Student.grade).order_by(desc(Student.grade))
ByGradeDescOut(rows) == {NameGradeOf(s) : s \in OrderedByGradeDesc(rows)}
\* (faulty variant: the order is ascending)
OldestOutAsc(rows) ==
    FirstOf({NameBirthdayOf(s) : s \in OrderedByGradeAsc(rows)})

\* session.query(Student.name, Student.birthday)
\*     .order_by(desc(Student.grade)).first()  (lines 118-120)
OldestOut(rows) ==
    FirstOf({NameBirthdayOf(s) : s \in OrderedByGradeDesc(rows)})
\* session.query(func.count(Student.id)).first()  (line 126)
CountOut(rows) == {Some(<<Cardinality(rows)>>)}
\* for record in query: print(record.name)  (lines 132-136)
AlanFilter == Filter(Some(AlanPattern), Some(11), None)
FilterOut(rows) ==
    {PlainName(s) : s \in Perms(Matching(AlanFilter, rows))}
\* [(student.name, student.grade) for student in session.query(Student)]
UpdatedOut(rows) == {NameGradeOf(s) : s \in Perms(rows)}

(***************************************************************************)
(* The statements of the script.  Each sets every variable but pc.         *)
(***************************************************************************)

Running == err = "none" /\ schema /\ session_open

NoError == err' = "none" /\ raised_by' = "none"

\* (faulty variant: what the unit had sent to the store is committed)
RefusedPartial(by) ==
    /\ err' = "IntegrityError"
    /\ raised_by' = by
    /\ txn' = txn
    /\ dirty' = {}
    /\ deleted' = {}
    /\ db' = txn

\* The session rolls the transaction back when a statement is refused.
Refused(by) ==
    /\ err' = "IntegrityError"
    /\ raised_by' = by
    /\ txn' = db
    /\ dirty' = {}
    /\ deleted' = {}
    /\ db' = db

\* Autoflush before a SELECT: the pending UPDATEs and DELETEs are emitted.
Autoflushed ==
    /\ txn' = Flushed(txn, dirty, deleted)
    /\ dirty' = {}
    /\ deleted' = {}
    /\ db' = db

\* session.bulk_save_objects([...])  (line 85): the INSERTs run now, inside
\* the session's transaction; the objects do not become tracked.
BulkSaveObjects(os) ==
    LET res == InsertAll(txn, os)
    IN  /\ Running
        /\ Cardinality(txn) + Len(os) <= MaxRows
        /\ op' = "bulk_save_objects"
        /\ objs' = os
        /\ result' = None
        /\ IF res.ok
           THEN txn' = res.rows /\ UNCHANGED <<db, dirty, deleted>> /\ NoError
           ELSE Refused("bulk_save_objects")
        /\ UNCHANGED <<schema, session_open, albert_einstein, alan_turing,
                       query>>

\* session.commit()  (lines 86, 143, 159): flush, then COMMIT; every tracked
\* object is expired, so it is read again from the store when next used.
Commit ==
    /\ Running
    /\ op' = "commit"
    /\ objs' = <<>>
    /\ result' = None
    /\ IF FlushFails(dirty, deleted)
       THEN Refused("commit")
       ELSE /\ db' = Flushed(txn, dirty, deleted)
            /\ txn' = db'
            /\ dirty' = {}
            /\ deleted' = {}
            /\ NoError
    /\ UNCHANGED <<schema, session_open, albert_einstein, alan_turing, query>>

\* A statement that runs a SELECT and prints what it returns: outs are the
\* values the SELECT may return from the flushed table.
Select(o, outs) ==
    /\ Running
    /\ op' = o
    /\ objs' = <<>>
    /\ IF FlushFails(dirty, deleted)
       THEN Refused("autoflush") /\ result' = None
       ELSE /\ Autoflushed
            /\ NoError
            /\ \E v \in outs : result' = v
    /\ UNCHANGED <<schema, session_open, albert_einstein, alan_turing>>

\* The table a SELECT reads: the session's, with the pending changes flushed.
Seen == Flushed(txn, dirty, deleted)

\* students = session.query(Student).all()  (lines 90-92)
QueryAll == Select("all", AllOut(Seen)) /\ UNCHANGED query
\* names = [name for name in session.query(Student.name)]  (lines 96-98)
QueryNames == Select("names", NamesOut(Seen)) /\ UNCHANGED query
\* students_by_name  (lines 102-106)
QueryNamesOrdered ==
    Select("names_ordered", NamesOrderedOut(Seen)) /\ UNCHANGED query
\* students_by_grade_desc  (lines 110-114)
QueryByGradeDesc ==
    Select("by_grade_desc", ByGradeDescOut(Seen)) /\ UNCHANGED query
\* oldest_student  (lines 118-122)
OldestStudent == Select("oldest", OldestOut(Seen)) /\ UNCHANGED query
\* student_count  (lines 126-128)
StudentCount == Select("count", CountOut(Seen)) /\ UNCHANGED query
\* query = session.query(Student).filter(...)  (lines 132-136)
FilterLike == Select("filter", FilterOut(Seen)) /\ query' = Some(AlanFilter)
\* print([(student.name, student.grade) for ...])  (lines 145-146)
PrintUpdated == Select("updated", UpdatedOut(Seen)) /\ UNCHANGED query

\* for student in session.query(Student): student.grade += 1  (lines 140-141)
\* The SELECT runs once, before the first assignment; the assignments change
\* the objects in memory only.
UpdateGrades ==
    /\ Running
    /\ \A r \in txn \cup dirty : r.incs < MaxIncs
    /\ op' = "update"
    /\ objs' = <<>>
    /\ result' = None
    /\ IF FlushFails(dirty, deleted)
       THEN Refused("autoflush")
       ELSE /\ txn' = Flushed(txn, dirty, deleted)
            /\ dirty' = BumpAll(txn')
            /\ deleted' = {}
            /\ db' = db
            /\ NoError
    /\ UNCHANGED <<schema, session_open, albert_einstein, alan_turing, query>>

\* query = session.query(Student).filter(Student.name == n)
\* albert_einstein = query.first(); session.delete(albert_einstein)
\* (lines 150-158, where n is "Albert Einstein").  session.delete(None) raises UnmappedInstanceError.
DeleteFirst(n) ==
    LET q == Filter(None, None, Some(n))
    IN  /\ Running
        /\ op' = "delete"
        /\ objs' = <<>>
        /\ result' = None
        /\ query' = Some(q)
        /\ IF FlushFails(dirty, deleted)
           THEN Refused("autoflush") /\ UNCHANGED albert_einstein
           ELSE /\ txn' = Flushed(txn, dirty, deleted)
                /\ dirty' = {}
                /\ db' = db
                /\ \E f \in FirstOf(Perms(Matching(q, txn'))) :
                      /\ albert_einstein' = f
                      /\ IF f = None
                         THEN /\ deleted' = {}
                              /\ err' = "UnmappedInstanceError"
                              /\ raised_by' = "delete"
                         ELSE deleted' = {f[1].id} /\ NoError
        /\ UNCHANGED <<schema, session_open, alan_turing>>

\* albert_einstein = query.first(); print(albert_einstein)  (lines 162-164)
Requery ==
    /\ Running
    /\ query # None
    /\ op' = "requery"
    /\ objs' = <<>>
    /\ IF FlushFails(dirty, deleted)
       THEN Refused("autoflush") /\ result' = None /\ UNCHANGED albert_einstein
       ELSE /\ Autoflushed
            /\ NoError
            /\ \E f \in FirstOf(Perms(Matching(query[1], txn'))) :
                  albert_einstein' = f /\ result' = f
    /\ UNCHANGED <<schema, session_open, alan_turing, query>>

\* print(f"New student ID is {albert_einstein.name}.")  (line 168)
Dereference ==
    /\ Running
    /\ op' = "dereference"
    /\ objs' = <<>>
    /\ IF albert_einstein = None
       THEN /\ err' = "AttributeError"
            /\ raised_by' = "getattr"
            /\ result' = None
       ELSE NoError /\ result' = Some(albert_einstein[1].name)
    /\ UNCHANGED <<schema, session_open, db, txn, dirty, deleted,
                   albert_einstein, alan_turing, query>>

\* Base.metadata.create_all(engine)  (lines 47-48)
CreateAll ==
    /\ err = "none"
    /\ ~schema
    /\ schema' = TRUE
    /\ op' = "create_all"
    /\ UNCHANGED <<session_open, db, txn, dirty, deleted, albert_einstein,
                   alan_turing, query, objs, result, err, raised_by>>

\* session = Session()  (lines 52-56)
OpenSession ==
    /\ err = "none"
    /\ ~session_open
    /\ session_open' = TRUE
    /\ op' = "session"
    /\ UNCHANGED <<schema, db, txn, dirty, deleted, albert_einstein,
                   alan_turing, query, objs, result, err, raised_by>>

(***************************************************************************)
(* Spec: the statements that insert, read and update rows, in any order    *)
(* and any number of times, from the state after line 80.  (The delete of  *)
(* lines 150-168 is run by SpecMain.)                                      *)
(***************************************************************************)

Init ==
    /\ schema = TRUE
    /\ session_open = TRUE
    /\ db = {}
    /\ txn = {}
    /\ dirty = {}
    /\ deleted = {}
    /\ albert_einstein = Some(SampleEinstein)
    /\ alan_turing = Some(SampleTuring)
    /\ query = None
    /\ op = "session"
    /\ objs = <<>>
    /\ result = None
    /\ err = "none"
    /\ raised_by = "none"
    /\ pc = "api"

ApiBulkSave == \E os \in ObjLists : BulkSaveObjects(os) /\ UNCHANGED pc
ApiCommit == Commit /\ UNCHANGED pc
ApiQueryAll == QueryAll /\ UNCHANGED pc
ApiQueryNames == QueryNames /\ UNCHANGED pc
ApiQueryNamesOrdered == QueryNamesOrdered /\ UNCHANGED pc
ApiQueryByGradeDesc == QueryByGradeDesc /\ UNCHANGED pc
ApiOldestStudent == OldestStudent /\ UNCHANGED pc
ApiStudentCount == StudentCount /\ UNCHANGED pc
ApiFilterLike == FilterLike /\ UNCHANGED pc
ApiUpdateGrades == UpdateGrades /\ UNCHANGED pc
ApiPrintUpdated == PrintUpdated /\ UNCHANGED pc

Next ==
    \/ ApiBulkSave
    \/ ApiCommit
    \/ ApiQueryAll
    \/ ApiQueryNames
    \/ ApiQueryNamesOrdered
    \/ ApiQueryByGradeDesc
    \/ ApiOldestStudent
    \/ ApiStudentCount
    \/ ApiFilterLike
    \/ ApiUpdateGrades
    \/ ApiPrintUpdated

Spec == Init /\ [][Next]_vars

(***************************************************************************)
(* SpecMain: the script, statement by statement.  An uncaught exception    *)
(* ends the run at "halt"; "done" is the end of the file.                  *)
(***************************************************************************)
InitMain ==
    /\ schema = FALSE
    /\ session_open = FALSE
    /\ db = {}
    /\ txn = {}
    /\ dirty = {}
    /\ deleted = {}
    /\ albert_einstein \in {Some(o) : o \in RosterMain}
    /\ alan_turing \in {Some(o) : o \in RosterMain}
    /\ query = None
    /\ op = "start"
    /\ objs = <<>>
    /\ result = None
    /\ err = "none"
    /\ raised_by = "none"
    /\ pc = "l48"

Goto(next) == pc' = IF err' = "none" THEN next ELSE "halt"

L48 == pc = "l48" /\ CreateAll /\ Goto("l56")
L56 == pc = "l56" /\ OpenSession /\ Goto("l85")
L85 ==
    /\ pc = "l85"
    /\ BulkSaveObjects(<<albert_einstein[1], alan_turing[1]>>)
    /\ Goto("l86")
L86 == pc = "l86" /\ Commit /\ Goto("l90")
L90 == pc = "l90" /\ QueryAll /\ Goto("l96")
L96 == pc = "l96" /\ QueryNames /\ Goto("l102")
L102 == pc = "l102" /\ QueryNamesOrdered /\ Goto("l110")
L110 == pc = "l110" /\ QueryByGradeDesc /\ Goto("l118")
L118 == pc = "l118" /\ OldestStudent /\ Goto("l126")
L126 == pc = "l126" /\ StudentCount /\ Goto("l132")
L132 == pc = "l132" /\ FilterLike /\ Goto("l140")
L140 == pc = "l140" /\ UpdateGrades /\ Goto("l143")
L143 == pc = "l143" /\ Commit /\ Goto("l145")
L145 == pc = "l145" /\ PrintUpdated /\ Goto("l150")
L150 == pc = "l150" /\ DeleteFirst(AlbertEinsteinName) /\ Goto("l159")
L159 == pc = "l159" /\ Commit /\ Goto("l162")
L162 == pc = "l162" /\ Requery /\ Goto("l168")
L168 == pc = "l168" /\ Dereference /\ Goto("done")

NextMain ==
    \/ L48 \/ L56 \/ L85 \/ L86 \/ L90 \/ L96 \/ L102 \/ L110 \/ L118
    \/ L126 \/ L132 \/ L140 \/ L143 \/ L145 \/ L150 \/ L159 \/ L162 \/ L168

SpecMain == InitMain /\ [][NextMain]_vars

(***************************************************************************)
(* Properties.                                                             *)
(***************************************************************************)
InRange(g) == g \in 1..12
Emails(rows) == {r.email : r \in rows}
Ids(rows) == {r.id : r \in rows}
SameColumns(r, o) ==
    /\ r.name = o.name
    /\ r.email = o.email
    /\ r.grade = o.grade
    /\ r.birthday = o.birthday
IsQuery(o) ==
    o \in {"all", "names", "names_ordered", "by_grade_desc", "oldest",
           "count", "filter", "updated", "update"}

\* A list of new objects that breaks a constraint of the table holding rows:
\* a grade out of range, an email already stored or given twice, or an id
\* that is given and already stored.
ViolatingInsert(rows, os) ==
    \/ \E i \in 1..Len(os) : ~InRange(os[i].grade)
    \/ \E i \in 1..Len(os) : os[i].email \in Emails(rows)
    \/ \E i, j \in 1..Len(os) : i # j /\ os[i].email = os[j].email
    \/ \E i \in 1..Len(os) : os[i].id # 0 /\ os[i].id \in Ids(rows)

\* C1 as stated: whenever a unit of work holds a violating change, it is
\* commit() that fails with the ConstraintViolation, and the committed store
\* is what it was.
C1_AsStated ==
    [][err' = "IntegrityError" => (raised_by' = "commit" /\ db' = db)]_vars

\* C1 (amended): a unit of work with a change that violates a constraint
\* fails with a ConstraintViolation, raised by the call that sends the change
\* to the store (bulk_save_objects for its inserts; commit() or the flush
\* before a query for an update), and the committed store is exactly what it
\* was before the unit began: none of the unit's changes stays.
C1_Atomic ==
    [][ /\ err' = "IntegrityError" => (db' = db /\ txn' = db)
        /\ (op' = "bulk_save_objects" /\ ViolatingInsert(txn, objs'))
              => err' = "IntegrityError"
        /\ ((op' = "commit" \/ IsQuery(op'))
               /\ \E d \in dirty : ~InRange(d.grade))
              => err' = "IntegrityError"
        /\ err' = "none" => \A r \in db' : InRange(r.grade) ]_vars

\* a unit that had inserted a row and updated grades failed at commit(), and
\* the store kept what was committed before it
C1_Witness ==
    /\ err = "IntegrityError"
    /\ raised_by = "commit"
    /\ db # {}

\* C2 as stated: no two committed Students share an email; inserting two
\* Students with the same email fails, and the store retains the first.
C2_AsStated ==
    [][ /\ \A r1, r2 \in db' : r1.email = r2.email => r1 = r2
        /\ (/\ op' = "bulk_save_objects"
            /\ Len(objs') = 2
            /\ objs'[1].email = objs'[2].email)
              => /\ err' = "IntegrityError"
                 /\ \E r \in db' : SameColumns(r, objs'[1]) ]_vars

\* C2 (amended): no two committed Students share an email; inserting a
\* Student whose email is that of a stored Student, or two Students with the
\* same email, fails with a ConstraintViolation and leaves the committed
\* store as it was: the first of the two is retained only if it was
\* committed by an earlier unit of work, and neither is when both are
\* inserted in one unit.
C2_UniqueEmail ==
    [][ /\ \A r1, r2 \in db' : r1.email = r2.email => r1 = r2
        /\ (/\ op' = "bulk_save_objects"
            /\ \/ \E i \in 1..Len(objs') : objs'[i].email \in Emails(txn)
               \/ \E i, j \in 1..Len(objs') :
                     i # j /\ objs'[i].email = objs'[j].email)
              => /\ err' = "IntegrityError"
                 /\ db' = db
                 /\ \A i \in 1..Len(objs') :
                       (\E r \in db' : SameColumns(r, objs'[i]))
                          <=> (\E r \in db : SameColumns(r, objs'[i])) ]_vars

\* two Students with one email were inserted in one unit: the insert failed
\* and the store holds neither
C2_Witness ==
    /\ err = "IntegrityError"
    /\ op = "bulk_save_objects"
    /\ Len(objs) = 2
    /\ objs[1].email = objs[2].email
    /\ InRange(objs[1].grade)
    /\ db = {}

C4_AsStated == err = "IntegrityError" => raised_by = "commit"

\* C4 (amended): a ConstraintViolation surfaces when the violating statement
\* is sent to the store, which is not only at commit(): bulk_save_objects
\* raises it itself for a violating insert, and the flush that runs inside
\* commit() or before a query raises it for a violating update.  Assigning
\* a field never raises it.
C4_Surfaces ==
    [][ /\ err' = "IntegrityError"
              => raised_by' \in {"bulk_save_objects", "autoflush", "commit"}
        /\ (op' = "bulk_save_objects" /\ ViolatingInsert(txn, objs'))
              => err' = "IntegrityError" /\ raised_by' = "bulk_save_objects"
        /\ (IsQuery(op') /\ \E d \in dirty : ~InRange(d.grade))
              => err' = "IntegrityError" /\ raised_by' = "autoflush"
        /\ (op' = "commit" /\ \E d \in dirty : ~InRange(d.grade))
              => err' = "IntegrityError" /\ raised_by' = "commit"
        /\ (op' = "update" /\ \A d \in dirty : InRange(d.grade))
              => /\ err' = "none"
                 /\ dirty' = {[r EXCEPT !.grade = @ + 1, !.incs = @ + 1] :
                                 r \in txn'} ]_vars

\* a grade of 13 was assigned without an error, and the query that ran next
\* raised the ConstraintViolation
C4_Witness ==
    /\ err = "IntegrityError"
    /\ raised_by = "autoflush"
    /\ IsQuery(op)

\* A list of valid Students for the table holding rows: grades in range,
\* emails distinct and not stored, ids left to the store.
ValidInsert(rows, os) ==
    /\ \A i \in 1..Len(os) : InRange(os[i].grade) /\ os[i].id = 0
    /\ \A i \in 1..Len(os) : os[i].email \notin Emails(rows)
    /\ \A i, j \in 1..Len(os) : i # j => os[i].email # os[j].email

\* C5: valid Students given to bulk_save_objects are all inserted, one row
\* each and no other row; the commit stores them; and query(Student).all()
\* returns every stored row exactly once, in some order, and nothing else.
C5_RoundTrip ==
    [][ /\ (op' = "bulk_save_objects" /\ ValidInsert(txn, objs'))
              => err' = "none"
        /\ (op' = "bulk_save_objects" /\ err' = "none")
              => /\ txn \subseteq txn'
                 /\ Cardinality(txn') = Cardinality(txn) + Len(objs')
                 /\ \A i \in 1..Len(objs') :
                       \E r \in txn' \ txn : SameColumns(r, objs'[i])
                 /\ \A r \in txn' \ txn :
                       \E i \in 1..Len(objs') : SameColumns(r, objs'[i])
        /\ (op' = "commit" /\ dirty = {} /\ deleted = {})
              => err' = "none" /\ db' = txn /\ txn' = txn
        /\ (op' = "all" /\ err' = "none")
              => /\ Len(result') = Cardinality(txn')
                 /\ {result'[i] : i \in 1..Len(result')} = txn'
                 /\ \A i, j \in 1..Len(result') :
                       i # j => result'[i] # result'[j] ]_vars

\* two Students were inserted and committed, and all() returned both
C5_Witness ==
    /\ op = "all"
    /\ err = "none"
    /\ Len(result) = 2
    /\ db = txn
    /\ {result[1], result[2]} = db

\* C7: a committed grade is the grade the Student was inserted with plus one
\* for every "increment all grades, commit" step run since (so plus exactly 2
\* after two), and never leaves [1,12]; the commit of such a step fails with
\* a ConstraintViolation, storing nothing, exactly when a Student is at
\* grade 12, and otherwise adds one to the grade of every Student.
C7_Increment ==
    [][ /\ \A r \in db' :
              /\ r.grade = r.g0 + r.incs
              /\ r.grade >= 1 /\ r.grade <= 12
              /\ r.incs = 2 => r.grade = r.g0 + 2
        /\ (op = "update" /\ op' = "commit")
              => IF \E r \in txn : r.grade = 12
                 THEN err' = "IntegrityError" /\ db' = db
                 ELSE /\ err' = "none"
                      /\ Ids(db') = Ids(txn)
                      /\ \A r \in txn : \E r2 \in db' :
                            /\ r2.id = r.id
                            /\ r2.grade = r.grade + 1
                            /\ r2.incs = r.incs + 1 ]_vars

\* the step has run and been committed twice
C7_Witness == \E r \in db : r.incs = 2 /\ r.grade = r.g0 + 2

\* the largest grade stored
MaxGrade(rows) == MaxOf({r.grade : r \in rows})

\* C10: order_by(desc(grade)).first() returns the name and birthday of a
\* Student whose grade is the largest stored, and None when nothing is
\* stored; the ordered list begins with a largest grade too and never
\* ascends; with grades 6 and 11 stored, the grade-11 Student comes first.
C10_OrderedFirst ==
    /\ (op = "oldest" /\ err = "none")
          => IF txn = {}
             THEN result = None
             ELSE /\ Len(result) = 1
                  /\ \E r \in txn :
                        /\ r.grade = MaxGrade(txn)
                        /\ result[1] = <<r.name, r.birthday>>
                  /\ \A r6, r11 \in txn :
                        (txn = {r6, r11} /\ r6.grade = 6 /\ r11.grade = 11)
                           => result[1] = <<r11.name, r11.birthday>>
    /\ (op = "by_grade_desc" /\ err = "none")
          => /\ Len(result) = Cardinality(txn)
             /\ \A i \in 1..(Len(result) - 1) :
                   result[i][2] >= result[i + 1][2]
             /\ txn # {} => result[1][2] = MaxGrade(txn)

\* with the grades 6 and 11 stored, first() returned the grade-11 Student
C10_Witness ==
    /\ op = "oldest"
    /\ err = "none"
    /\ {r.grade : r \in txn} = {6, 11}
    /\ result = Some(<<AlanTuringName, 1912>>)

(***************************************************************************)
(* Properties of the script's run (SpecMain).                              *)
(***************************************************************************)
EinsteinFilter == Filter(None, None, Some(AlbertEinsteinName))

\* The rows of the sample run after the update of lines 140-143.
Einstein7 == Bump(Row(SampleEinstein, 1))
Turing12 == Bump(Row(SampleTuring, 2))

C8_AsStated ==
    (pc \in {"done", "halt"} /\ alan_turing = Some(SampleTuring)
        /\ db = {Turing12})
       => ~session_open

\* C9: with the two Students of lines 60-80, every statement up to the
\* re-run query completes without error; the update stores grades 7 and 12;
\* the delete removes Albert Einstein; the re-run query returns None; and
\* the last statement, which reads the name of that None, raises an error
\* that ends the run.
C9_SampleRun ==
    /\ (albert_einstein = Some(SampleEinstein)
           /\ alan_turing = Some(SampleTuring))
          => /\ err = "none"
             /\ pc \notin {"halt", "done"}
             /\ pc = "l150" => db = {Einstein7, Turing12} /\ txn = db
    /\ (alan_turing = Some(SampleTuring) /\ op = "delete"
           /\ txn = {Einstein7, Turing12})
          => /\ err = "none"
             /\ albert_einstein = Some(Einstein7)
             /\ pc = "l159"
    /\ (alan_turing = Some(SampleTuring) /\ op = "commit"
           /\ albert_einstein = Some(Einstein7))
          => /\ err = "none"
             /\ db = {Turing12}
             /\ pc = "l162"
    /\ (op = "requery" /\ db = {Turing12} /\ query = Some(EinsteinFilter))
          => /\ err = "none"
             /\ albert_einstein = None
             /\ result = None
             /\ pc = "l168"
    /\ (op = "dereference" /\ albert_einstein = None)
          => /\ err = "AttributeError"
             /\ raised_by = "getattr"
             /\ pc = "halt"

\* the sample run has ended in the error of line 168
C9_Witness ==
    /\ pc = "halt"
    /\ op = "dereference"
    /\ err = "AttributeError"
    /\ alan_turing = Some(SampleTuring)
    /\ db = {Turing12}

====
